---- MODULE Spec2Model ----
(***************************************************************************)
(* A model of rest_api_testing: the AuthenticationService token cache      *)
(* (auth/authentication_service.py) as a state machine of asyncio tasks    *)
(* that share one service instance.  A step of a task is the code it runs  *)
(* between two suspension points (await), which asyncio runs atomically.   *)
(***************************************************************************)
EXTENDS Naturals, Sequences, FiniteSets, TLC

(***************************************************************************)
(* Bounds of the model.                                                    *)
(***************************************************************************)
\* how often the clock advances in one behaviour
MaxTicks == 1
\* how many operations (get_access_token, invalidate_token,
\* invalidate_all_tokens) the callers begin in one behaviour
MaxCalls == 3
\* longest scope list given to _create_scope_key in SpecKey, and held by an
\* _oauth_scopes attribute in SpecExtract
MaxScopes == 2
\* how many calls of BaseApiTest._ensure_initialized one behaviour of
\* SpecInitialized holds
MaxInitCalls == 3
\* largest clock value and expiry time drawn in SpecValid
MaxClock == 10

(***************************************************************************)
(* The values of the model.                                                *)
(***************************************************************************)
\* the asyncio tasks that call the service concurrently
Tasks == {"A", "B"}

\* OAuth scope names, and Python's str order among them
ScopeNames == {"admin", "read", "write"}

StrRank(s) == CASE s = "admin" -> 1 [] s = "read" -> 2 [] s = "write" -> 3

\* the `scopes` arguments the tasks pass: None is {}, a list s is {s}
ScopeArgs == {{}, {<<"read", "write">>}, {<<"write", "read">>}}

\* access tokens the identity provider hands out
Tokens == {"jwt1", "jwt2"}

\* the client id / client secret settings: "" is the unset default of config.py
ClientIds == {"", "test-client-id"}

ClientSecrets == {"", "test-client-secret"}

\* the token endpoint's answers: status, kind of body, access_token of the body
Responses ==
    [status : {200}, body : {"json"}, access_token : Tokens \cup {"absent"}]
        \cup [status : {401}, body : {"json"}, access_token : {"jwt1", "absent"}]
        \cup [status : {200, 401}, body : {"not_json"}, access_token : {"absent"}]

NoResponse == [status |-> 0, body |-> "none", access_token |-> "absent"]

\* a variant of the cache duration: the hour the token is assumed to live
CacheSecondsHour == 60 * 60

\* seconds a fetched token is cached: 55 * 60
CacheSeconds == 55 * 60

\* the step by which the clock advances: to the expiry of an entry stored now
ClockSteps == {CacheSeconds}

\* Python's None for _playwright and _api_request_context; handles are 1, 2, ...
None == 0

\* the handle of a singleton: the TestConfig of get_config(), the instance of
\* AuthenticationService.get_instance() and of TemplateService.get_instance()
Instance == 1

\* the class attributes of BaseApiTest as the class statement sets them
BaseApiTest ==
    [_config |-> None, _auth_service |-> None, _template_service |-> None,
     _initialized |-> FALSE, _playwright_lock |-> "None"]

\* The log settings of the configuration get_config() returns.  TestConfig
\* (config.py) declares neither log_directory nor log_level, so reading them
\* raises AttributeError; the configuration the tests put in place of it
\* (mock_config) has both.
NoLogSettings == [declared |-> FALSE, log_directory |-> "", log_level |-> ""]

LogSettings ==
    [declared : {TRUE}, log_directory : {"logs", "/tmp/logs"},
     log_level : {"INFO", "DEBUG", "bogus"}]

\* History of the calls of _ensure_initialized: calls counts them, caller is
\* the class the last one was called on, result its outcome; get_config,
\* setup_logging, log_config, auth_get_instance and template_get_instance count
\* the calls _ensure_initialized made of each; initialized counts the runs of
\* line 60; settings is the configuration of the process; logging is what the
\* last setup_logging configured.
NoRuns ==
    [calls |-> 0, caller |-> "", result |-> "", get_config |-> 0, setup_logging |-> 0,
     log_config |-> 0, auth_get_instance |-> 0, template_get_instance |-> 0,
     initialized |-> 0,
     settings |-> NoLogSettings,
     logging |-> <<>>]

\* TemplateService.__init__: an empty cache. The cache maps a template path to
\* the Template object loaded for it, named by the number of the load that made it.
NoTemplates == [x \in {} |-> 0]

TemplateService ==
    [_template_cache |-> NoTemplates,
     get_template |-> 0,        \* history: calls of self._env.get_template
     rendered |-> {},           \* history: paths rendered since the cache was last cleared
     only_renders |-> TRUE,     \* history: only successful renders since then
     calls |-> 0,
     op |-> [name |-> "", arg |-> {}, result |-> ""]]

\* PlaywrightApiRequest.__init__: nothing set. None is "None" for the strings
\* and {} for the URL, which is {u} when set to the sequence of parts u.
PlaywrightApiRequest ==
    [_context |-> "sync_api", _method |-> "None", _url |-> {}, _body |-> "None",
     _headers |-> {}, _query_params |-> <<>>, _response |-> "None",
     _json_response |-> "None", _config |-> "None",
     sends |-> <<>>,            \* history: the URLs of the HTTP requests sent
     executes |-> 0,            \* history: calls of _execute
     calls |-> 0,
     op |-> [name |-> "", result |-> ""]]

VARIABLES
    config,               \* self.config: client id and secret
    _playwright,          \* self._playwright: None or the client handle
    _api_request_context, \* self._api_request_context: None or the context handle
    _token_cache,         \* self._token_cache: scope key -> TokenCacheEntry
    _playwright_lock,     \* self._playwright_lock: holder and FIFO waiters
    now,                  \* time.time()
    pc,                   \* per task: the await it is suspended at
    frame,                \* per task: its get_access_token call, locals and history
    started,              \* history: number of async_playwright().start() calls
    contexts,             \* history: number of request.new_context() calls
    ticks,                \* history: number of clock advances
    calls,                \* history: number of operations begun
    last,                 \* history: the operation that completed last, and its outcome
    args,                 \* SpecKey, SpecValid, SpecExtract: the inputs drawn
    ret,                  \* SpecKey, SpecValid, SpecExtract: the value returned
    base_cls,             \* the class attributes of BaseApiTest
    runs,                 \* history: the calls of BaseApiTest._ensure_initialized
    template_service,     \* the TemplateService instance and the history of its calls
    api_request           \* a PlaywrightApiRequest builder and the history of its sends

vars == <<config, _playwright, _api_request_context, _token_cache, _playwright_lock,
          now, pc, frame, started, contexts, ticks, calls, last, args, ret,
          base_cls, runs, template_service, api_request>>

(***************************************************************************)
(* TokenCacheEntry and the scope key.                                      *)
(***************************************************************************)
TokenCacheEntry(token, expiry_time) == [token |-> token, expiry_time |-> expiry_time]

\* a variant of is_valid that takes the expiry instant itself as valid
is_valid_inclusive(self) == now <= self.expiry_time

\* a variant of is_valid that never finds an entry expired
is_valid_always(self) == TRUE

\* TokenCacheEntry.is_valid: time.time() < self.expiry_time
is_valid(self) == now < self.expiry_time

\* list.insert of x before the first element greater than x
RECURSIVE Insert(_, _)
Insert(x, s) ==
    IF s = <<>> THEN <<x>>
    ELSE IF StrRank(x) < StrRank(Head(s)) THEN <<x>> \o s
    ELSE <<Head(s)>> \o Insert(x, Tail(s))

\* sorted(scopes)
RECURSIVE sorted(_)
sorted(s) == IF s = <<>> THEN <<>> ELSE Insert(Head(s), sorted(Tail(s)))

\* " ".join(s)
RECURSIVE join(_)
join(s) ==
    IF s = <<>> THEN ""
    ELSE IF Len(s) = 1 THEN Head(s)
    ELSE Head(s) \o " " \o join(Tail(s))

\* a variant of _create_scope_key that joins the scopes as given
_create_scope_key_unsorted(scopes) == IF scopes = <<>> THEN "" ELSE join(scopes)

\* AuthenticationService._create_scope_key
_create_scope_key(scopes) == IF scopes = <<>> THEN "" ELSE join(sorted(scopes))

\* `scopes or []`
ScopesOrEmpty(arg) == IF arg = {} THEN <<>> ELSE CHOOSE s \in arg : TRUE

(***************************************************************************)
(* Records of the model.                                                   *)
(***************************************************************************)
\* An operation on the service, its locals and its outcome.  op is "get"
\* (get_access_token), "invalidate" (invalidate_token), "invalidate_all" or
\* "none"; response is the answer to the POST; kind is "token" when a get
\* returned, else the exception it raised, with msg its message, status the
\* status code the message holds and text the response body it holds (the
\* code puts the body into the log only, never into the exception); posts
\* counts the POSTs the call
\* sent to the token endpoint; cached tells a token taken from the cache;
\* found is the state of the cache entry of the call's scope key when
\* the call reached line 76 ("absent", "valid", "expired"), and for
\* invalidate_all_tokens whether the cache held an entry ("absent", "present");
\* after is the
\* operation that completed last before the call began, when that was a get or
\* an invalidate of the same scope key.
NoAfter == [op |-> "none", bypass_cache |-> FALSE, token |-> "", posts |-> 0]

Op(op, scopes, bypass_cache, after) ==
    [op |-> op, scopes |-> scopes, bypass_cache |-> bypass_cache,
     response |-> NoResponse, kind |-> "none", token |-> "", status |-> 0, msg |-> "",
     text |-> "",
     posts |-> 0, cached |-> FALSE, found |-> "none", after |-> after]

NoOp == Op("none", <<>>, FALSE, NoAfter)

After(op, scopes) ==
    IF op.op \in {"get", "invalidate"}
           /\ _create_scope_key(op.scopes) = _create_scope_key(scopes)
    THEN [op |-> op.op, bypass_cache |-> op.bypass_cache, token |-> op.token,
          posts |-> op.posts]
    ELSE NoAfter


Returned(call, token, cached) ==
    [call EXCEPT !.kind = "token", !.token = token, !.cached = cached]

Raised(call, kind, msg, status) == [call EXCEPT !.kind = kind, !.msg = msg, !.status = status]

MsgCredentials == "PING Federate client ID and secret must be configured."

MsgStatus == "Failed to retrieve JWT token from PING Federate. Status:"

MsgParse == "Failed to parse PING Federate response"

MsgNoToken == "Access token not found in PING Federate response"

MsgNoneType == "'NoneType' object has no attribute 'post'"

\* dict operations on _token_cache
DictDel(d, k) == [x \in DOMAIN d \ {k} |-> d[x]]

\* a variant of the dict assignment that keeps the value a key already has
DictSetDefault(d, k, v) == [x \in DOMAIN d \cup {k} |-> IF x \in DOMAIN d THEN d[x] ELSE v]

DictSet(d, k, v) == [x \in DOMAIN d \cup {k} |-> IF x = k THEN v ELSE d[x]]

EmptyDict == [x \in {} |-> TokenCacheEntry("", 0)]

\* asyncio.Lock: release hands the lock to the first waiter
FreeLock == [holder |-> "", waiters |-> <<>>]

Release(lock) ==
    IF lock.waiters = <<>> THEN FreeLock
    ELSE [holder |-> Head(lock.waiters), waiters |-> Tail(lock.waiters)]

(***************************************************************************)
(* get_access_token, from the return of _ensure_playwright to the next     *)
(* await.                                                                  *)
(***************************************************************************)
\* _ensure_playwright: the check without the lock, and the check with it
OuterCheck == _playwright = None

\* a variant of _ensure_playwright that does not check again with the lock held
InnerCheckSkipped == TRUE

InnerCheck == _playwright = None

\* the state of the cache entry of scope_key
Found(scope_key) ==
    IF scope_key \notin DOMAIN _token_cache THEN "absent"
    ELSE IF now < _token_cache[scope_key].expiry_time THEN "valid"
    ELSE "expired"

\* a variant of the lookup that deletes the entry a bypass_cache call passes by
LookupBypassDeletes(scope_key, bypass_cache) ==
    IF scope_key \in DOMAIN _token_cache
    THEN IF ~bypass_cache /\ is_valid(_token_cache[scope_key])
         THEN [hit |-> TRUE, cache |-> _token_cache]
         ELSE [hit |-> FALSE, cache |-> DictDel(_token_cache, scope_key)]
    ELSE [hit |-> FALSE, cache |-> _token_cache]

\* a variant of the lookup that never finds the entry
LookupAlwaysMiss(scope_key, bypass_cache) == [hit |-> FALSE, cache |-> _token_cache]

\* a variant of the lookup that reads the cache when bypass_cache is set
LookupBypassInverted(scope_key, bypass_cache) ==
    IF bypass_cache /\ scope_key \in DOMAIN _token_cache
    THEN IF is_valid(_token_cache[scope_key])
         THEN [hit |-> TRUE, cache |-> _token_cache]
         ELSE [hit |-> FALSE, cache |-> DictDel(_token_cache, scope_key)]
    ELSE [hit |-> FALSE, cache |-> _token_cache]

\* the cache lookup: a hit, or the cache with an expired entry deleted
Lookup(scope_key, bypass_cache) ==
    IF ~bypass_cache /\ scope_key \in DOMAIN _token_cache
    THEN IF is_valid(_token_cache[scope_key])
         THEN [hit |-> TRUE, cache |-> _token_cache]
         ELSE [hit |-> FALSE, cache |-> DictDel(_token_cache, scope_key)]
    ELSE [hit |-> FALSE, cache |-> _token_cache]

\* a variant of the check that raises only when both settings are unset
CredentialsMissingBoth == config.client_id = "" /\ config.client_secret = ""

\* `not client_id or not client_secret`
CredentialsMissing == config.client_id = "" \/ config.client_secret = ""

\* the call of task t ends
Finish(t, call) ==
    /\ pc' = [pc EXCEPT ![t] = "idle"]
    /\ frame' = [frame EXCEPT ![t] = NoOp]
    /\ last' = call

\* lines 73-131 with api_request_context the value of self._api_request_context
Continue(t, scopes, bypass_cache, api_request_context, after) ==
    LET scope_key == _create_scope_key(scopes)
        look == Lookup(scope_key, bypass_cache)
        call == [Op("get", scopes, bypass_cache, after) EXCEPT !.found = Found(scope_key)]
    IN  /\ _token_cache' = look.cache
        /\ IF look.hit
           THEN Finish(t, Returned(call, _token_cache[scope_key].token, TRUE))
           ELSE IF CredentialsMissing
           THEN Finish(t, Raised(call, "ValueError", MsgCredentials, 0))
           ELSE IF api_request_context = None
           THEN Finish(t, Raised(call, "AttributeError", MsgNoneType, 0))
           ELSE /\ pc' = [pc EXCEPT ![t] = "post"]
                /\ frame' = [frame EXCEPT ![t] = [call EXCEPT !.posts = 1]]
                /\ last' = NoOp

(***************************************************************************)
(* The steps of a task.                                                    *)
(***************************************************************************)
\* get_access_token(scopes, bypass_cache) up to its first suspension
Call(t, arg, bypass_cache) ==
    LET scopes == ScopesOrEmpty(arg) IN
    /\ pc[t] = "idle"
    /\ calls < MaxCalls
    /\ calls' = calls + 1
    /\ IF ~OuterCheck
       THEN /\ Continue(t, scopes, bypass_cache, _api_request_context,
                        After(last, scopes))
            /\ UNCHANGED _playwright_lock
       ELSE /\ frame' = [frame EXCEPT ![t] =
                            Op("get", scopes, bypass_cache, After(last, scopes))]
            /\ last' = NoOp
            /\ UNCHANGED _token_cache
            /\ IF _playwright_lock.holder = ""
               THEN /\ _playwright_lock' = [_playwright_lock EXCEPT !.holder = t]
                    /\ pc' = [pc EXCEPT ![t] = IF InnerCheck THEN "start" ELSE "locked"]
               ELSE /\ _playwright_lock' =
                          [_playwright_lock EXCEPT !.waiters = Append(@, t)]
                    /\ pc' = [pc EXCEPT ![t] = "wait_lock"]
    /\ UNCHANGED <<config, _playwright, _api_request_context, now, started, contexts,
                   ticks, args, ret, base_cls, runs,
                   template_service, api_request>>

\* a waiter is handed the lock: the check with the lock held
Locked(t) ==
    /\ pc[t] \in {"wait_lock", "locked"}
    /\ _playwright_lock.holder = t
    /\ IF InnerCheck
       THEN /\ pc' = [pc EXCEPT ![t] = "start"]
            /\ UNCHANGED <<_playwright_lock, _token_cache, frame, last>>
       ELSE /\ _playwright_lock' = Release(_playwright_lock)
            /\ Continue(t, frame[t].scopes, frame[t].bypass_cache,
                        _api_request_context, frame[t].after)
    /\ UNCHANGED <<config, _playwright, _api_request_context, now, started, contexts,
                   ticks, calls, args, ret, base_cls, runs,
                   template_service, api_request>>

\* async_playwright().start() returns
StartDone(t) ==
    /\ pc[t] = "start"
    /\ _playwright' = started + 1
    /\ started' = started + 1
    /\ pc' = [pc EXCEPT ![t] = "new_context"]
    /\ UNCHANGED <<config, _api_request_context, _token_cache, _playwright_lock, now,
                   frame, contexts, ticks, calls, last, args, ret, base_cls, runs,
                   template_service, api_request>>

\* request.new_context() returns: the lock is released and the call goes on
NewContextDone(t) ==
    /\ pc[t] = "new_context"
    /\ _api_request_context' = contexts + 1
    /\ contexts' = contexts + 1
    /\ _playwright_lock' = Release(_playwright_lock)
    /\ Continue(t, frame[t].scopes, frame[t].bypass_cache, contexts + 1,
                frame[t].after)
    /\ UNCHANGED <<config, _playwright, now, started, ticks, calls, args, ret, base_cls, runs,
                   template_service, api_request>>

\* variants of Answer: without the status check, without the handling of the
\* body that is no JSON, without the check of the access_token
AnswerNoStatusCheck(response) ==
    IF response.body # "json" THEN "parse"
    ELSE IF response.access_token \in {"absent", ""} THEN "no_token"
    ELSE "store"

AnswerNoParseCheck(response) ==
    IF response.status # 200 THEN "status"
    ELSE IF response.access_token \in {"absent", ""} THEN "no_token"
    ELSE "store"

AnswerNoTokenCheck(response) ==
    IF response.status # 200 THEN "status"
    ELSE IF response.body # "json" THEN "parse"
    ELSE "store"

\* What lines 133-154 make of the answer: raise on the status, raise on the
\* body that is no JSON, raise on the missing access_token, or store.
Answer(response) ==
    IF response.status # 200 THEN "status"
    ELSE IF response.body # "json" THEN "parse"
    ELSE IF response.access_token \in {"absent", ""} THEN "no_token"
    ELSE "store"

\* a variant of the raise that sends the POST again instead
RaiseRuntimeErrorRetried(t, call, msg, status) ==
    /\ pc' = pc
    /\ frame' = [frame EXCEPT ![t] = [call EXCEPT !.posts = @ + 1]]
    /\ last' = last

\* `raise RuntimeError(...)` of lines 140, 150 and 154: the call of task t ends
RaiseRuntimeError(t, call, msg, status) ==
    Finish(t, Raised(call, "RuntimeError", msg, status))

\* The token endpoint answers the POST: lines 133-165.  The awaits of
\* response.text() (134, 148) and response.json() (146) read the response only
\* and touch nothing shared, so the code from the answer to the return or raise
\* is one step.
PostDone(t, response) ==
    LET call == [frame[t] EXCEPT !.response = response]
        access_token == IF response.access_token = "absent" THEN "" ELSE response.access_token
        scope_key == _create_scope_key(call.scopes)
    IN  /\ pc[t] = "post"
        /\ IF Answer(response) = "status"
           THEN /\ RaiseRuntimeError(t, call, MsgStatus, response.status)
                /\ UNCHANGED _token_cache
           ELSE IF Answer(response) = "parse"
           THEN /\ RaiseRuntimeError(t, call, MsgParse, 0)
                /\ UNCHANGED _token_cache
           ELSE IF Answer(response) = "no_token"
           THEN /\ RaiseRuntimeError(t, call, MsgNoToken, 0)
                /\ UNCHANGED _token_cache
           ELSE /\ _token_cache' =
                      DictSet(_token_cache, scope_key,
                              TokenCacheEntry(access_token, now + CacheSeconds))
                /\ Finish(t, Returned(call, access_token, FALSE))
        /\ UNCHANGED <<config, _playwright, _api_request_context, _playwright_lock, now,
                       started, contexts, ticks, calls, args, ret, base_cls, runs,
                   template_service, api_request>>

(***************************************************************************)
(* The synchronous operations and the clock.                               *)
(***************************************************************************)
\* a variant of lines 191-192 that deletes the entry that comes first
InvalidateFirst(cache, scope_key) ==
    IF scope_key \in DOMAIN cache
    THEN DictDel(cache, CHOOSE k \in DOMAIN cache : \A x \in DOMAIN cache : Len(k) <= Len(x))
    ELSE cache

\* a variant of lines 191-192 that drops every entry
InvalidateClears(cache, scope_key) == EmptyDict

\* lines 191-192: `if scope_key in self._token_cache: del self._token_cache[scope_key]`
Invalidate(cache, scope_key) ==
    IF scope_key \in DOMAIN cache THEN DictDel(cache, scope_key) ELSE cache

\* a variant of line 201 that drops the expired entries only
ClearExpired(cache) ==
    [k \in {x \in DOMAIN cache : now < cache[x].expiry_time} |-> cache[k]]

\* line 201: self._token_cache.clear()
Clear(cache) == EmptyDict

invalidate_token(arg) ==
    LET scopes == ScopesOrEmpty(arg)
        scope_key == _create_scope_key(scopes)
    IN  /\ _token_cache' = Invalidate(_token_cache, scope_key)
        /\ last' = [Op("invalidate", scopes, FALSE, NoAfter) EXCEPT !.found = Found(scope_key)]
        /\ calls < MaxCalls
        /\ calls' = calls + 1
        /\ UNCHANGED <<config, _playwright, _api_request_context, _playwright_lock, now,
                       pc, frame, started, contexts, ticks, args, ret, base_cls, runs,
                   template_service, api_request>>

invalidate_all_tokens ==
    /\ _token_cache' = Clear(_token_cache)
    /\ last' = [Op("invalidate_all", <<>>, FALSE, NoAfter)
                    EXCEPT !.found = IF DOMAIN _token_cache = {} THEN "absent" ELSE "present"]
    /\ calls < MaxCalls
    /\ calls' = calls + 1
    /\ UNCHANGED <<config, _playwright, _api_request_context, _playwright_lock, now,
                   pc, frame, started, contexts, ticks, args, ret, base_cls, runs,
                   template_service, api_request>>

\* time.time() advances
Tick(d) ==
    /\ ticks < MaxTicks
    /\ now' = now + d
    /\ ticks' = ticks + 1
    /\ UNCHANGED <<config, _playwright, _api_request_context, _token_cache,
                   _playwright_lock, pc, frame, started, contexts, calls, last,
                   args, ret, base_cls, runs,
                   template_service, api_request>>

(***************************************************************************)
(* The service and its callers.                                            *)
(***************************************************************************)
\* AuthenticationService.__init__
Init ==
    /\ config \in [client_id : ClientIds, client_secret : ClientSecrets]
    /\ _playwright = None
    /\ _api_request_context = None
    /\ _token_cache = EmptyDict
    /\ _playwright_lock = FreeLock
    /\ now = 0
    /\ pc = [t \in Tasks |-> "idle"]
    /\ frame = [t \in Tasks |-> NoOp]
    /\ started = 0
    /\ contexts = 0
    /\ ticks = 0
    /\ calls = 0
    /\ last = NoOp
    /\ args = <<>>
    /\ ret = <<>>
    /\ base_cls = BaseApiTest
    /\ runs = NoRuns
    /\ template_service = TemplateService
    /\ api_request = PlaywrightApiRequest

Next ==
    \/ \E t \in Tasks, arg \in ScopeArgs, bypass_cache \in BOOLEAN :
           Call(t, arg, bypass_cache)
    \/ \E t \in Tasks : Locked(t)
    \/ \E t \in Tasks : StartDone(t)
    \/ \E t \in Tasks : NewContextDone(t)
    \/ \E t \in Tasks, response \in Responses : PostDone(t, response)
    \/ \E arg \in ScopeArgs : invalidate_token(arg)
    \/ invalidate_all_tokens
    \/ \E d \in ClockSteps : Tick(d)

Spec == Init /\ [][Next]_vars

(***************************************************************************)
(* _create_scope_key and TokenCacheEntry.is_valid as functions of their    *)
(* inputs.                                                                 *)
(***************************************************************************)
\* the scope lists of at most MaxScopes names
ScopeLists == UNION {[1..n -> ScopeNames] : n \in 0..MaxScopes}

InitKey ==
    /\ config = [client_id |-> "test-client-id", client_secret |-> "test-client-secret"]
    /\ _playwright = None
    /\ _api_request_context = None
    /\ _token_cache = EmptyDict
    /\ _playwright_lock = FreeLock
    /\ now = 0
    /\ pc = [t \in Tasks |-> "idle"]
    /\ frame = [t \in Tasks |-> NoOp]
    /\ started = 0
    /\ contexts = 0
    /\ ticks = 0
    /\ calls = 0
    /\ last = NoOp
    /\ args \in ScopeLists \X ScopeLists
    /\ ret = <<>>
    /\ base_cls = BaseApiTest
    /\ runs = NoRuns
    /\ template_service = TemplateService
    /\ api_request = PlaywrightApiRequest

\* self._create_scope_key(scopes) for both lists
CreateScopeKey ==
    /\ ret = <<>>
    /\ ret' = <<_create_scope_key(args[1]), _create_scope_key(args[2])>>
    /\ UNCHANGED <<config, _playwright, _api_request_context, _token_cache,
                   _playwright_lock, now, pc, frame, started, contexts, ticks, calls,
                   last, args, base_cls, runs,
                   template_service, api_request>>

NextKey == CreateScopeKey

SpecKey == InitKey /\ [][NextKey]_vars

InitValid ==
    /\ config = [client_id |-> "test-client-id", client_secret |-> "test-client-secret"]
    /\ _playwright = None
    /\ _api_request_context = None
    /\ _token_cache = EmptyDict
    /\ _playwright_lock = FreeLock
    /\ now \in 0..MaxClock
    /\ pc = [t \in Tasks |-> "idle"]
    /\ frame = [t \in Tasks |-> NoOp]
    /\ started = 0
    /\ contexts = 0
    /\ ticks = 0
    /\ calls = 0
    /\ last = NoOp
    /\ args \in {<<TokenCacheEntry(token, t)>> : token \in {"jwt1"}, t \in 0..MaxClock}
    /\ ret = <<>>
    /\ base_cls = BaseApiTest
    /\ runs = NoRuns
    /\ template_service = TemplateService
    /\ api_request = PlaywrightApiRequest

\* entry.is_valid()
IsValidCall ==
    /\ ret = <<>>
    /\ ret' = <<is_valid(args[1])>>
    /\ UNCHANGED <<config, _playwright, _api_request_context, _token_cache,
                   _playwright_lock, now, pc, frame, started, contexts, ticks, calls,
                   last, args, base_cls, runs,
                   template_service, api_request>>

NextValid == IsValidCall

SpecValid == InitValid /\ [][NextValid]_vars

(***************************************************************************)
(* BaseApiTest._ensure_initialized (base_api_test.py).  The lock of line   *)
(* 45 is held over no await, so every task finds it free, and acquiring a  *)
(* free asyncio.Lock does not suspend: a call runs from line 34 to its end *)
(* as one step, and concurrent calls are steps of different callers in any *)
(* order.                                                                  *)
(***************************************************************************)
\* the classes _ensure_initialized is called on: BaseApiTest and subclasses
Classes == {"BaseApiTest", "TestUsers", "TestOrders"}

\* what setup_logging does: it returns, or its mkdir raises OSError
Outcomes == {"returned", "OSError"}

\* line 28 of logging_setup.py: getattr(logging, log_level.upper(), logging.INFO)
NumericLevel(log_level) == IF log_level = "DEBUG" THEN 10 ELSE 20

\* lines 37-43: the lock is created by the first call
WithLock(cls) ==
    IF cls._playwright_lock = "None" THEN [cls EXCEPT !._playwright_lock = "unlocked"]
    ELSE cls

\* line 35: the check without the lock; line 46: the check with it
NotInitializedOuter(cls) == ~cls._initialized

NotInitializedInner(cls) == ~cls._initialized

\* lines 47-60: the assignments to the class attributes
Initialize(cls) ==
    [cls EXCEPT !._config = Instance, !._auth_service = Instance,
                !._template_service = Instance, !._initialized = TRUE]

\* BaseApiTest._ensure_initialized called on cls, with the outcome of
\* setup_logging should the call reach it.  The call raises AttributeError at
\* line 50 when the configuration declares no log settings, and OSError when
\* setup_logging does; `async with` releases the lock either way.
_ensure_initialized(cls, outcome) ==
    LET locked == WithLock(base_cls)
        called == [runs EXCEPT !.calls = @ + 1, !.caller = cls]
    IN  /\ runs.calls < MaxInitCalls
        /\ IF ~NotInitializedOuter(base_cls)
           THEN /\ base_cls' = base_cls
                /\ runs' = [called EXCEPT !.result = "returned"]
           ELSE IF ~NotInitializedInner(locked)
           THEN /\ base_cls' = locked
                /\ runs' = [called EXCEPT !.result = "returned"]
           ELSE IF ~runs.settings.declared
           THEN /\ base_cls' = [locked EXCEPT !._config = Instance]
                /\ runs' = [called EXCEPT !.result = "AttributeError", !.get_config = @ + 1]
           ELSE IF outcome = "OSError"
           THEN /\ base_cls' = [locked EXCEPT !._config = Instance]
                /\ runs' = [called EXCEPT !.result = "OSError", !.get_config = @ + 1,
                                          !.setup_logging = @ + 1]
           ELSE /\ base_cls' = Initialize(locked)
                /\ runs' = [called EXCEPT
                               !.result = "returned", !.get_config = @ + 1,
                               !.setup_logging = @ + 1, !.log_config = @ + 1,
                               !.auth_get_instance = @ + 1,
                               !.template_get_instance = @ + 1,
                               !.initialized = @ + 1,
                               !.logging = <<runs.settings.log_directory,
                                             NumericLevel(runs.settings.log_level)>>]
        /\ UNCHANGED <<config, _playwright, _api_request_context, _token_cache,
                       _playwright_lock, now, pc, frame, started, contexts, ticks,
                       calls, last, args, ret,
                       template_service, api_request>>

InitInitialized ==
    /\ config = [client_id |-> "test-client-id", client_secret |-> "test-client-secret"]
    /\ _playwright = None
    /\ _api_request_context = None
    /\ _token_cache = EmptyDict
    /\ _playwright_lock = FreeLock
    /\ now = 0
    /\ pc = [t \in Tasks |-> "idle"]
    /\ frame = [t \in Tasks |-> NoOp]
    /\ started = 0
    /\ contexts = 0
    /\ ticks = 0
    /\ calls = 0
    /\ last = NoOp
    /\ args = <<>>
    /\ ret = <<>>
    /\ base_cls = BaseApiTest
    /\ runs \in {[NoRuns EXCEPT !.settings = settings] :
                    settings \in {NoLogSettings} \cup LogSettings}
    /\ template_service = TemplateService
    /\ api_request = PlaywrightApiRequest

NextInitialized == \E cls \in Classes, outcome \in Outcomes : _ensure_initialized(cls, outcome)

SpecInitialized == InitInitialized /\ [][NextInitialized]_vars

(***************************************************************************)
(* BaseApiTest._extract_scopes and _extract_bypass_cache as functions of   *)
(* the test method and the test class.                                     *)
(***************************************************************************)
\* An attribute of a function or a class: has tells whether hasattr finds it,
\* value is what getattr returns.  _oauth_scopes holds a list of scopes,
\* _bypass_token_cache a flag.
ScopesAttrs == {[has |-> FALSE, value |-> <<>>]} \cup [has : {TRUE}, value : ScopeLists]

BypassAttrs == {[has |-> FALSE, value |-> FALSE]} \cup [has : {TRUE}, value : BOOLEAN]

Attrs == [_oauth_scopes : ScopesAttrs, _bypass_token_cache : BypassAttrs]

\* The `method` argument: None (given is FALSE), a bound method whose
\* function holds the attributes (bound is TRUE), or a plain function.
NoMethod ==
    [given |-> FALSE, bound |-> FALSE,
     func |-> [_oauth_scopes |-> [has |-> FALSE, value |-> <<>>],
               _bypass_token_cache |-> [has |-> FALSE, value |-> FALSE]]]

Methods == {NoMethod} \cup [given : {TRUE}, bound : BOOLEAN, func : Attrs]

\* `method.__func__ if hasattr(method, "__func__") else method`
FuncOf(method) == method.func

\* a variant of _extract_scopes that looks at the class before the method
_extract_scopes_class_first(cls, method) ==
    IF cls._oauth_scopes.has /\ cls._oauth_scopes.value # <<>>
    THEN {cls._oauth_scopes.value}
    ELSE IF /\ method.given
            /\ FuncOf(method)._oauth_scopes.has
            /\ FuncOf(method)._oauth_scopes.value # <<>>
    THEN {FuncOf(method)._oauth_scopes.value}
    ELSE {}

\* BaseApiTest._extract_scopes on an instance of cls: None is {}, a list s is {s}
_extract_scopes(cls, method) ==
    IF /\ method.given
       /\ FuncOf(method)._oauth_scopes.has
       /\ FuncOf(method)._oauth_scopes.value # <<>>
    THEN {FuncOf(method)._oauth_scopes.value}
    ELSE IF cls._oauth_scopes.has /\ cls._oauth_scopes.value # <<>>
    THEN {cls._oauth_scopes.value}
    ELSE {}

\* a variant of _extract_bypass_cache in which the method's flag, when the
\* method has one, decides
_extract_bypass_cache_method_decides(cls, method) ==
    IF method.given /\ FuncOf(method)._bypass_token_cache.has
    THEN FuncOf(method)._bypass_token_cache.value
    ELSE cls._bypass_token_cache.has /\ cls._bypass_token_cache.value

\* BaseApiTest._extract_bypass_cache on an instance of cls
_extract_bypass_cache(cls, method) ==
    IF /\ method.given
       /\ FuncOf(method)._bypass_token_cache.has
       /\ FuncOf(method)._bypass_token_cache.value
    THEN TRUE
    ELSE IF cls._bypass_token_cache.has /\ cls._bypass_token_cache.value
    THEN TRUE
    ELSE FALSE

InitExtract ==
    /\ config = [client_id |-> "test-client-id", client_secret |-> "test-client-secret"]
    /\ _playwright = None
    /\ _api_request_context = None
    /\ _token_cache = EmptyDict
    /\ _playwright_lock = FreeLock
    /\ now = 0
    /\ pc = [t \in Tasks |-> "idle"]
    /\ frame = [t \in Tasks |-> NoOp]
    /\ started = 0
    /\ contexts = 0
    /\ ticks = 0
    /\ calls = 0
    /\ last = NoOp
    /\ args \in Attrs \X Methods
    /\ ret = <<>>
    /\ base_cls = BaseApiTest
    /\ runs = NoRuns
    /\ template_service = TemplateService
    /\ api_request = PlaywrightApiRequest

\* lines 105-113 of _test_setup_teardown: the scopes and the bypass flag of
\* the test about to run, for the class args[1] and the method args[2]
ExtractCall ==
    /\ ret = <<>>
    /\ ret' = <<_extract_scopes(args[1], args[2]), _extract_bypass_cache(args[1], args[2])>>
    /\ UNCHANGED <<config, _playwright, _api_request_context, _token_cache,
                   _playwright_lock, now, pc, frame, started, contexts, ticks, calls,
                   last, args, base_cls, runs,
                   template_service, api_request>>

NextExtract == ExtractCall

SpecExtract == InitExtract /\ [][NextExtract]_vars

(***************************************************************************)
(* The errors of the specification, as the code raises them.               *)
(***************************************************************************)
\* AuthFailure: the RuntimeError of line 140
AuthFailure(call) == call.kind = "RuntimeError" /\ call.msg = MsgStatus

\* AuthProtocolFailure: the RuntimeErrors of lines 150 and 154
AuthProtocolFailure(call) == call.kind = "RuntimeError" /\ call.msg \in {MsgParse, MsgNoToken}

\* ConfigurationError: the ValueError of line 106
ConfigurationError(call) == call.kind = "ValueError" /\ call.msg = MsgCredentials

\* a step in which a get_access_token call returns or raises after its POST was answered
Answered(t) == pc[t] = "post" /\ pc'[t] = "idle"

\* a step that creates the cache entry of key k or writes another entry over it
Writes(k) ==
    /\ k \in DOMAIN _token_cache'
    /\ k \notin DOMAIN _token_cache \/ _token_cache'[k] # _token_cache[k]

(***************************************************************************)
(* The claims.                                                             *)
(***************************************************************************)
\* C1: when a get_access_token call without bypass_cache follows a successful
\* call without bypass_cache for the same scopes, and finds the cache entry not
\* yet expired, it sends no POST and returns the token of the first call from
\* the cache; the two calls together send at most one POST.
C1_SecondCallServedFromCache ==
    (/\ last.op = "get" /\ ~last.bypass_cache
     /\ last.after.op = "get" /\ ~last.after.bypass_cache /\ last.after.token # ""
     /\ last.found = "valid")
        => /\ last.kind = "token"
           /\ last.cached
           /\ last.token = last.after.token
           /\ last.posts = 0
           /\ last.after.posts + last.posts <= 1

\* C1, reached: the first call fetched the token, the clock advanced without
\* reaching the expiry, and the second call returned the same token.
C1_Witness ==
    /\ last.op = "get" /\ ~last.bypass_cache
    /\ last.after.op = "get" /\ ~last.after.bypass_cache /\ last.after.posts = 1
    /\ last.found = "valid" /\ now > 0
    /\ last.kind = "token" /\ last.token = last.after.token /\ last.posts = 0

\* C2: a get_access_token call with bypass_cache=True on a service with client
\* id and secret configured ends having sent a POST to the token endpoint.
C2_BypassAlwaysPosts ==
    (/\ last.op = "get" /\ last.bypass_cache
     /\ config.client_id # "" /\ config.client_secret # "")
        => last.posts = 1

\* C3: a get_access_token call without bypass_cache that follows
\* invalidate_token for the same scopes, on a service with client id and secret
\* configured, sends a POST and returns no cached token.
C3_PostAfterInvalidate ==
    (/\ last.op = "get" /\ ~last.bypass_cache
     /\ last.after.op = "invalidate"
     /\ config.client_id # "" /\ config.client_secret # "")
        => last.posts = 1 /\ ~last.cached

\* C4: a call whose POST is answered with a status other than 200 raises the
\* AuthFailure error, and the step in which it does leaves the cache as it was;
\* no step of a call creates or writes a cache entry but the one that handles
\* an answer of status 200.
C4_Non200IsAuthFailure ==
    [][/\ \A t \in Tasks :
            (Answered(t) /\ last'.response.status # 200)
                => /\ AuthFailure(last') /\ last'.status = last'.response.status
                   /\ last'.token = ""
                   /\ _token_cache' = _token_cache
       /\ \A k \in DOMAIN _token_cache' :
            Writes(k) => \E t \in Tasks : Answered(t) /\ last'.response.status = 200]_vars

\* C4, reached: a 401 answer ended the call with the error and the scope key
\* of the call has no cache entry.
C4_Witness ==
    /\ last.op = "get" /\ last.response.status = 401 /\ AuthFailure(last)
    /\ last.found = "absent"
    /\ _create_scope_key(last.scopes) \notin DOMAIN _token_cache

\* C5: a call whose POST is answered with status 200 and a JSON body without
\* access_token raises the AuthProtocolFailure error (access token not found),
\* and the step in which it does leaves the cache as it was; every entry
\* created or written holds the access_token of the answer just handled.
C5_MissingTokenIsProtocolFailure ==
    [][/\ \A t \in Tasks :
            (/\ Answered(t) /\ last'.response.status = 200
             /\ last'.response.body = "json" /\ last'.response.access_token = "absent")
                => /\ AuthProtocolFailure(last') /\ last'.msg = MsgNoToken
                   /\ last'.token = ""
                   /\ _token_cache' = _token_cache
       /\ \A k \in DOMAIN _token_cache' :
            Writes(k) => /\ last'.response.access_token \in Tokens
                         /\ _token_cache'[k].token = last'.response.access_token]_vars

C5_Witness ==
    /\ last.op = "get" /\ last.response.status = 200 /\ last.response.body = "json"
    /\ last.response.access_token = "absent" /\ last.msg = MsgNoToken
    /\ last.found = "absent"
    /\ _create_scope_key(last.scopes) \notin DOMAIN _token_cache

\* C6: a call whose POST is answered with status 200 and a body that is no
\* JSON raises the AuthProtocolFailure error (failed to parse), and the step in
\* which it does leaves the cache as it was; no entry is created or written
\* in handling a body that is no JSON.
C6_UnparsableIsProtocolFailure ==
    [][/\ \A t \in Tasks :
            (Answered(t) /\ last'.response.status = 200
             /\ last'.response.body = "not_json")
                => /\ AuthProtocolFailure(last') /\ last'.msg = MsgParse
                   /\ last'.token = ""
                   /\ _token_cache' = _token_cache
       /\ \A k \in DOMAIN _token_cache' :
            Writes(k) => \E t \in Tasks : Answered(t) /\ last'.response.body = "json"]_vars

C6_Witness ==
    /\ last.op = "get" /\ last.response.status = 200 /\ last.response.body = "not_json"
    /\ last.msg = MsgParse
    /\ last.found = "absent"
    /\ _create_scope_key(last.scopes) \notin DOMAIN _token_cache

\* C7: on a service whose client id or client secret is not configured no call
\* ever sends a POST, and every get_access_token call raises the configuration
\* error.
C7_MissingCredentialsFailFast ==
    (config.client_id = "" \/ config.client_secret = "")
        => /\ \A t \in Tasks : pc[t] # "post" /\ frame[t].posts = 0
           /\ last.op = "get" => ConfigurationError(last) /\ last.posts = 0

\* C7, reached: only the client id is unset, the Playwright client exists, and
\* a call raised the configuration error.
C7_Witness ==
    /\ config.client_id = "" /\ config.client_secret # ""
    /\ _api_request_context # None
    /\ last.op = "get" /\ ConfigurationError(last) /\ last.posts = 0

\* the number of places of s that hold x
Count(s, x) == Cardinality({i \in 1..Len(s) : s[i] = x})

IsPermutation(s1, s2) == \A x \in ScopeNames : Count(s1, x) = Count(s2, x)

Ascending(s) == \A i \in 1..Len(s) - 1 : StrRank(s[i]) <= StrRank(s[i + 1])

\* C8: _create_scope_key returns the same key for two scope lists that are
\* permutations of each other; the key is the empty string for no scopes and
\* else the scopes in ascending order joined by single spaces.
C8_PermutationsShareKey ==
    ret # <<>>
        => /\ IsPermutation(args[1], args[2]) => ret[1] = ret[2]
           /\ args[1] = <<>> => ret[1] = ""
           /\ \E s \in ScopeLists :
                  IsPermutation(s, args[1]) /\ Ascending(s) /\ ret[1] = join(s)

C8_Witness ==
    /\ ret # <<>>
    /\ args = <<(<<"write", "read">>), (<<"read", "write">>)>>
    /\ ret = <<"read write", "read write">>

\* C9: is_valid() is true exactly when the clock is strictly before the
\* entry's expiry time; at the expiry time itself the entry is invalid.
C9_ValidIffBeforeExpiry ==
    ret # <<>>
        => /\ ret[1] <=> (args[1].expiry_time > now)
           /\ args[1].expiry_time = now => ret[1] = FALSE

C9_Witness == ret = <<FALSE>> /\ args[1].expiry_time = now /\ now > 0

\* C10: in every interleaving the Playwright client and its request context
\* are created at most once each, a call that ended or that awaits its POST
\* used the one client created, and once set neither handle changes.
C10_ClientCreatedOnce ==
    /\ [](/\ started <= 1 /\ contexts <= 1
          /\ last.op = "get" => started = 1 /\ _playwright # None
          /\ \A t \in Tasks : pc[t] = "post" => started = 1 /\ contexts = 1)
    /\ [][/\ _playwright # None => _playwright' = _playwright
          /\ _api_request_context # None => _api_request_context' = _api_request_context]_vars

\* C10, reached: a second first call waited for the lock while the first one
\* created the client, and is handed the lock with the client in place.
C10_Witness ==
    \E t \in Tasks :
        /\ pc[t] = "wait_lock" /\ _playwright_lock.holder = t
        /\ started = 1 /\ contexts = 1 /\ _playwright # None

\* the scope key of a call, from the scopes it was given
KeyOf(call) == join(sorted(call.scopes))

\* C11: the cache is not single-flight.  Whenever two get_access_token calls
\* without bypass_cache for the same scope key both await the answer to their
\* POST, each of them missed the cache (no entry, or an expired one) and each
\* sent its own POST: nothing makes the second call wait for the first.
C11_BothMissBothPost ==
    \A t, u \in Tasks :
        (/\ t # u /\ pc[t] = "post" /\ pc[u] = "post"
         /\ ~frame[t].bypass_cache /\ ~frame[u].bypass_cache
         /\ KeyOf(frame[t]) = KeyOf(frame[u]))
            => /\ frame[t].found \in {"absent", "expired"}
               /\ frame[u].found \in {"absent", "expired"}
               /\ frame[t].posts = 1 /\ frame[u].posts = 1

\* C11, reached: both tasks called for the scopes read and write (in different
\* orders), both found no entry, and both POSTs are in flight.
C11_Witness ==
    /\ pc["A"] = "post" /\ pc["B"] = "post"
    /\ ~frame["A"].bypass_cache /\ ~frame["B"].bypass_cache
    /\ frame["A"].scopes = <<"read", "write">> /\ frame["B"].scopes = <<"write", "read">>
    /\ frame["A"].found = "absent" /\ frame["B"].found = "absent"
    /\ frame["A"].posts = 1 /\ frame["B"].posts = 1
    /\ _token_cache = EmptyDict

\* a step of invalidate_token, of invalidate_all_tokens
InvalidateTokenStep == calls' = calls + 1 /\ last'.op = "invalidate"

InvalidateAllStep == calls' = calls + 1 /\ last'.op = "invalidate_all"

\* C12: invalidate_token(scopes) removes the entry stored under the scope key
\* of scopes (the scopes in ascending order, joined by spaces) and keeps every
\* other entry; with no entry under that key it leaves the cache as it was; it
\* raises nothing and suspends no task.
C12_InvalidateRemovesEntry ==
    [][InvalidateTokenStep
          => /\ KeyOf(last') \in DOMAIN _token_cache
                   => /\ DOMAIN _token_cache' = DOMAIN _token_cache \ {KeyOf(last')}
                      /\ \A k \in DOMAIN _token_cache' : _token_cache'[k] = _token_cache[k]
             /\ KeyOf(last') \notin DOMAIN _token_cache => _token_cache' = _token_cache
             /\ last'.kind = "none" /\ pc' = pc]_vars

\* C12, reached: invalidate_token(["write", "read"]) removed the entry of
\* "read write" and the entry of another scope key is still cached.
C12_Witness ==
    /\ last.op = "invalidate" /\ last.scopes = <<"write", "read">>
    /\ last.found \in {"valid", "expired"}
    /\ DOMAIN _token_cache = {""}

\* C13: when invalidate_all_tokens() was the last operation to complete, the
\* cache holds no entry, whatever it held before.
C13_InvalidateAllEmptiesCache ==
    last.op = "invalidate_all" => DOMAIN _token_cache = {}

\* C13, reached: invalidate_all_tokens() emptied a cache that held an entry
\* which had not expired.
C13_Witness ==
    /\ last.op = "invalidate_all" /\ last.found = "present"
    /\ _token_cache = EmptyDict /\ now = 0

\* C14: a call whose POST is answered with status 200 and a JSON body holding
\* an access_token returns that token, and the step in which it does stores
\* under the call's scope key the entry of that token with the expiry time
\* now + 55 * 60, leaving every other entry as it was.
C14_SuccessStoresEntry ==
    [][\A t \in Tasks :
          (/\ Answered(t) /\ last'.response.status = 200
           /\ last'.response.body = "json" /\ last'.response.access_token \in Tokens)
              => /\ last'.kind = "token" /\ ~last'.cached
                 /\ last'.token = last'.response.access_token
                 /\ DOMAIN _token_cache' = DOMAIN _token_cache \cup {KeyOf(last')}
                 /\ _token_cache'[KeyOf(last')] =
                        [token |-> last'.token, expiry_time |-> now + 55 * 60]
                 /\ \A k \in DOMAIN _token_cache \ {KeyOf(last')} :
                        _token_cache'[k] = _token_cache[k]]_vars

\* C14, reached: the clock stood at 3300 when the token for ["write", "read"]
\* arrived, and the entry of "read write" holds it with the expiry time 6600.
C14_Witness ==
    /\ last.op = "get" /\ last.kind = "token" /\ ~last.cached /\ last.posts = 1
    /\ last.scopes = <<"write", "read">> /\ now = 3300
    /\ "read write" \in DOMAIN _token_cache
    /\ _token_cache["read write"] = [token |-> last.token, expiry_time |-> 6600]

\* an answer that makes the call fail
FailureResponse(response) ==
    \/ response.status # 200
    \/ response.body # "json"
    \/ response.access_token \notin Tokens

\* C15: no call ever has more than one POST to its name; a task that awaits
\* the answer to its POST leaves that await only by ending its call, and when
\* the answer is a failure the call ends with the error, reported as the
\* outcome of that same call, while no other task is touched.
C15_NoRetry ==
    /\ [](/\ last.posts <= 1
          /\ \A t \in Tasks : frame[t].posts <= 1)
    /\ [][\A t \in Tasks :
             (pc[t] = "post" /\ (pc'[t] # pc[t] \/ frame'[t] # frame[t]))
                 => /\ pc'[t] = "idle"
                    /\ last'.op = "get" /\ last'.posts = 1
                    /\ last'.scopes = frame[t].scopes
                    /\ last'.bypass_cache = frame[t].bypass_cache
                    /\ last'.after = frame[t].after
                    /\ FailureResponse(last'.response)
                           => last'.kind = "RuntimeError" /\ last'.token = ""
                    /\ \A u \in Tasks \ {t} : pc'[u] = pc[u] /\ frame'[u] = frame[u]]_vars

\* C15, reached: one task's call ended with the error for a 401 answer and one
\* POST sent, while the other task still awaits the answer to its own POST.
C15_Witness ==
    /\ last.op = "get" /\ AuthFailure(last) /\ last.response.status = 401
    /\ last.posts = 1
    /\ \E t \in Tasks : pc[t] = "post" /\ frame[t].posts = 1

\* a step in which the entry of key k is deleted or replaced by another
Leaves(k) ==
    /\ k \in DOMAIN _token_cache
    /\ k \notin DOMAIN _token_cache' \/ _token_cache'[k] # _token_cache[k]

\* a step in which a call without bypass_cache finds the entry of k expired
\* and deletes it, on its way to the POST
ExpiredLookupStep(k) ==
    /\ ~(now < _token_cache[k].expiry_time)
    /\ k \notin DOMAIN _token_cache'
    /\ \E t \in Tasks :
          /\ pc[t] # "post" /\ pc'[t] = "post"
          /\ ~frame'[t].bypass_cache /\ frame'[t].found = "expired"
          /\ KeyOf(frame'[t]) = k

\* a step in which a call for the scope key k returns the token it fetched and
\* stores its entry
StoreStep(k) ==
    /\ k \in DOMAIN _token_cache'
    /\ \E t \in Tasks :
          /\ Answered(t) /\ last'.kind = "token"
          /\ KeyOf(last') = k /\ _token_cache'[k].token = last'.token

\* C16, as claimed: a cache entry leaves the cache only through
\* invalidate_token for its key or invalidate_all_tokens, or, once it has
\* expired, through the refetch (the lookup that deletes it, or the store that
\* writes the new entry over it).
C16_LeavesByInvalidateOrExpiry ==
    [][\A k \in DOMAIN _token_cache :
          Leaves(k)
              => \/ InvalidateTokenStep /\ KeyOf(last') = k
                 \/ InvalidateAllStep
                 \/ /\ ~(now < _token_cache[k].expiry_time)
                    /\ ExpiredLookupStep(k) \/ StoreStep(k)]_vars

\* C16, amended: a cache entry leaves the cache only through invalidate_token
\* for its key or invalidate_all_tokens, through the lookup of a call without
\* bypass_cache that finds it expired and deletes it, or through a successful
\* fetch for the same scope key that stores its entry over it, expired or not.
C16_LeavesByInvalidateExpiryOrStore ==
    [][\A k \in DOMAIN _token_cache :
          Leaves(k)
              => \/ InvalidateTokenStep /\ KeyOf(last') = k
                 \/ InvalidateAllStep
                 \/ ExpiredLookupStep(k)
                 \/ StoreStep(k)]_vars

\* C16, reached: a call with bypass_cache fetched jwt2 and stored it over the
\* entry of jwt1, which had not expired.
C16_Witness ==
    /\ last.op = "get" /\ last.bypass_cache /\ last.found = "valid"
    /\ last.kind = "token" /\ last.token = "jwt2"
    /\ last.after.op = "get" /\ last.after.token = "jwt1"
    /\ KeyOf(last) \in DOMAIN _token_cache
    /\ _token_cache[KeyOf(last)].token = "jwt2"

\* C17: the error raised for an answer of a status other than 200 holds the
\* status code of the answer and the body of the answer.
C17_ErrorCarriesStatusAndBody ==
    (last.op = "get" /\ AuthFailure(last))
        => /\ last.status = last.response.status
           /\ last.text = last.response.body

\* C18: once a call of _ensure_initialized has ended, and no setup_logging
\* failed on its directory, the shared initialization has run exactly once:
\* _initialized is true, _config, _auth_service and _template_service are set,
\* and get_config, setup_logging and the two get_instance were called once
\* each, however many calls followed on whatever class.
C18_InitializedOnce ==
    (runs.calls >= 1 /\ runs.setup_logging = runs.initialized)
        => /\ base_cls._initialized
           /\ base_cls._config # None
           /\ base_cls._auth_service # None
           /\ base_cls._template_service # None
           /\ runs.initialized = 1
           /\ runs.get_config = 1 /\ runs.setup_logging = 1
           /\ runs.auth_get_instance = 1 /\ runs.template_get_instance = 1

\* the method carries a non-empty _oauth_scopes; the class does
MethodScopes(method) ==
    method.given /\ method.func._oauth_scopes.has /\ Len(method.func._oauth_scopes.value) > 0

ClassScopes(cls) == cls._oauth_scopes.has /\ Len(cls._oauth_scopes.value) > 0

\* C19: _extract_scopes returns the method's scope list when the method
\* carries a non-empty one, whatever the class carries; else the class's list
\* when that is non-empty; else None.
C19_MethodScopesFirst ==
    ret # <<>>
        => /\ MethodScopes(args[2]) => ret[1] = {args[2].func._oauth_scopes.value}
           /\ (~MethodScopes(args[2]) /\ ClassScopes(args[1]))
                  => ret[1] = {args[1]._oauth_scopes.value}
           /\ (~MethodScopes(args[2]) /\ ~ClassScopes(args[1])) => ret[1] = {}

\* C19, reached: the method carries ["read"], the class ["admin", "write"],
\* and the scopes returned are the method's.
C19_Witness ==
    /\ ret # <<>>
    /\ args[2].given /\ args[2].func._oauth_scopes = [has |-> TRUE, value |-> <<"read">>]
    /\ args[1]._oauth_scopes = [has |-> TRUE, value |-> <<"admin", "write">>]
    /\ ret[1] = {<<"read">>}

\* the method's flag is set and true; the class's flag is
MethodBypass(method) ==
    method.given /\ method.func._bypass_token_cache = [has |-> TRUE, value |-> TRUE]

ClassBypass(cls) == cls._bypass_token_cache = [has |-> TRUE, value |-> TRUE]

\* C20: _extract_bypass_cache returns True exactly when the method's flag or
\* the class's flag is true; a method flag that is False does not undo a class
\* flag that is True, and with neither flag set the result is False.
C20_BypassIffEitherFlag ==
    ret # <<>>
        => /\ ret[2] <=> (MethodBypass(args[2]) \/ ClassBypass(args[1]))
           /\ (/\ args[2].given
               /\ args[2].func._bypass_token_cache = [has |-> TRUE, value |-> FALSE]
               /\ ClassBypass(args[1])) => ret[2] = TRUE
           /\ (~args[2].func._bypass_token_cache.has /\ ~args[1]._bypass_token_cache.has)
                  => ret[2] = FALSE

\* C20, reached: the method's flag is False, the class's flag is True, and the
\* result is True.
C20_Witness ==
    /\ ret # <<>>
    /\ args[2].given /\ args[2].func._bypass_token_cache = [has |-> TRUE, value |-> FALSE]
    /\ args[1]._bypass_token_cache = [has |-> TRUE, value |-> TRUE]
    /\ ret[2] = TRUE

\* a step in which a task comes back from _ensure_playwright: it goes on to
\* its POST, or its call ends without one
EnsureReturned ==
    \/ \E t \in Tasks : pc[t] # "post" /\ pc'[t] = "post"
    \/ /\ last'.op = "get" /\ last'.posts = 0
       /\ \/ calls' = calls + 1
          \/ \E t \in Tasks : pc[t] \in {"wait_lock", "locked", "new_context"}
                                  /\ pc'[t] = "idle"

\* C25: whenever a task comes back from _ensure_playwright, the Playwright
\* client and the request context are both set, and no call ends for having
\* reached its POST with the request context missing.
C25_ContextSetOnReturn ==
    /\ [](last.op = "get" => last.kind # "AttributeError")
    /\ [][EnsureReturned
             => _playwright' # None /\ _api_request_context' # None]_vars

\* the entry of key k is the same before and after the step
Kept(k) == k \in DOMAIN _token_cache' /\ _token_cache'[k] = _token_cache[k]

\* C26: while a get_access_token call with bypass_cache=True that returned a
\* fetched token is the last operation completed, the entry of its scope key
\* holds that token; and a call without bypass_cache for the same scopes that
\* comes next and finds the entry not yet expired returns that token from the
\* cache and sends no POST.
C26_BypassFetchIsCached ==
    /\ (last.op = "get" /\ last.bypass_cache /\ last.kind = "token")
           => /\ KeyOf(last) \in DOMAIN _token_cache
              /\ _token_cache[KeyOf(last)].token = last.token
    /\ (/\ last.op = "get" /\ ~last.bypass_cache
        /\ last.after.op = "get" /\ last.after.bypass_cache /\ last.after.token # ""
        /\ last.found = "valid")
           => /\ last.kind = "token" /\ last.cached
              /\ last.token = last.after.token /\ last.posts = 0

\* C26, reached: the second call, with bypass_cache, fetched jwt2, and the
\* third call, without bypass_cache, returned jwt2 from the cache.
C26_Witness ==
    /\ last.op = "get" /\ ~last.bypass_cache /\ last.cached /\ last.posts = 0
    /\ last.token = "jwt2" /\ last.found = "valid"
    /\ last.after.op = "get" /\ last.after.bypass_cache
    /\ last.after.token = "jwt2" /\ last.after.posts = 1
    /\ calls = 3

\* a step in which a get_access_token call ends with an error
FailStep ==
    /\ last'.op = "get" /\ last'.kind \notin {"token", "none"}
    /\ \/ calls' = calls + 1
       \/ \E t \in Tasks : pc[t] # "idle" /\ pc'[t] = "idle"

\* C27: the step in which a get_access_token call ends with an error, and the
\* step in which a call that sends a POST looks up the cache, leave every
\* entry that has not expired as it was; the step in which a call ends with an
\* error after its POST leaves the whole cache as it was, the entry of its own
\* scope key included.
C27_FailureKeepsEntries ==
    [][/\ (FailStep \/ \E t \in Tasks : pc[t] # "post" /\ pc'[t] = "post")
             => \A k \in DOMAIN _token_cache :
                    now < _token_cache[k].expiry_time => Kept(k)
       /\ (FailStep /\ last'.posts = 1) => _token_cache' = _token_cache]_vars

\* C27, reached: a call with bypass_cache found the entry of its key valid,
\* its POST failed, and the entry is still cached and not expired.
C27_Witness ==
    /\ last.op = "get" /\ last.bypass_cache /\ last.found = "valid"
    /\ last.kind = "RuntimeError" /\ last.posts = 1
    /\ KeyOf(last) \in DOMAIN _token_cache
    /\ now < _token_cache[KeyOf(last)].expiry_time

\* C28: a call that returned a token from the cache had bypass_cache=False and
\* found the entry's expiry time after the clock; a call with
\* bypass_cache=False that finds the entry expired deletes it in that step and
\* goes on to its POST.
C28_ExpiredNeverReturned ==
    /\ []((last.op = "get" /\ last.cached)
             => ~last.bypass_cache /\ last.found = "valid")
    /\ []((last.op = "get" /\ ~last.bypass_cache /\ last.found = "expired")
             => ~last.cached /\ last.posts = 1)
    /\ [][\A t \in Tasks :
             (/\ pc[t] # "post" /\ pc'[t] = "post"
              /\ ~frame'[t].bypass_cache /\ frame'[t].found = "expired")
                 => /\ KeyOf(frame'[t]) \in DOMAIN _token_cache
                    /\ _token_cache[KeyOf(frame'[t])].expiry_time <= now
                    /\ KeyOf(frame'[t]) \notin DOMAIN _token_cache']_vars

\* C28, reached: the clock stands at the expiry time of the entry; the call
\* found it expired, deleted it and awaits the answer to its POST.
C28_Witness ==
    \E t \in Tasks :
        /\ pc[t] = "post" /\ ~frame[t].bypass_cache /\ frame[t].found = "expired"
        /\ frame[t].after.op = "get" /\ frame[t].after.token # ""
        /\ now = 55 * 60
        /\ KeyOf(frame[t]) \notin DOMAIN _token_cache

\* the scope keys whose entry the step adds, deletes or changes
ChangedKeys ==
    {k \in DOMAIN _token_cache \cup DOMAIN _token_cache' :
        \/ k \notin DOMAIN _token_cache
        \/ k \notin DOMAIN _token_cache'
        \/ _token_cache'[k] # _token_cache[k]}

\* C29: a step of get_access_token or of invalidate_token adds, deletes or
\* changes no entry but that of the scope key of its own scopes; only a step of
\* invalidate_all_tokens touches the entries of other keys.
C29_OtherKeysUntouched ==
    [][~InvalidateAllStep
          => \A k \in ChangedKeys :
                \/ InvalidateTokenStep /\ KeyOf(last') = k
                \/ \E t \in Tasks :
                       pc[t] # "post" /\ pc'[t] = "post" /\ KeyOf(frame'[t]) = k
                \/ \E t \in Tasks : Answered(t) /\ KeyOf(last') = k]_vars

\* C29, reached: with the entries of two scope keys cached,
\* invalidate_token(None) deleted the entry of "" and left that of "read write".
C29_Witness ==
    /\ last.op = "invalidate" /\ last.scopes = <<>> /\ last.found = "valid"
    /\ DOMAIN _token_cache = {"read write"}

(***************************************************************************)
(* TemplateService: render, _get_template, clear_cache, get_cache_size.    *)
(***************************************************************************)
MaxTemplateCalls == 4

\* the paths the calls are made with: empty, blank, two templates on the search
\* path, one that is on no search path and one whose source does not compile
TemplatePaths == {"", " ", "a.json.j2", "b.json.j2", "missing.j2", "broken.j2"}

\* str.strip() on these paths
strip(s) == IF s = " " THEN "" ELSE s

\* the truth value of a str
truthy(s) == s # ""

\* self._env.get_template(template_path): a Template, or the exception raised
get_template(template_path) ==
    CASE template_path \in {"a.json.j2", "b.json.j2"} -> "Template"
      [] template_path = "broken.j2" -> "TemplateSyntaxError"
      [] OTHER -> "TemplateNotFound"

\* a variant of line 185 that loads the template whether it is cached or not
_get_template_reloading(svc, template_path) ==
    LET loaded == get_template(template_path)
    IN  IF loaded = "Template"
        THEN [svc |-> [svc EXCEPT
                          !._template_cache =
                              [x \in DOMAIN @ \cup {template_path} |->
                                  IF x = template_path THEN svc.get_template + 1 ELSE @[x]],
                          !.get_template = @ + 1],
              raised |-> ""]
        ELSE [svc |-> [svc EXCEPT !.get_template = @ + 1],
              raised |-> IF loaded = "TemplateNotFound" THEN "TemplateException" ELSE loaded]

\* lines 185-196: the service after the call, and the exception it raised if any
_get_template(svc, template_path) ==
    IF template_path \notin DOMAIN svc._template_cache
    THEN LET loaded == get_template(template_path)
         IN  IF loaded = "Template"
             THEN [svc |-> [svc EXCEPT
                               !._template_cache =
                                   [x \in DOMAIN @ \cup {template_path} |->
                                       IF x = template_path THEN svc.get_template + 1 ELSE @[x]],
                               !.get_template = @ + 1],
                   raised |-> ""]
             ELSE [svc |-> [svc EXCEPT !.get_template = @ + 1],
                   raised |-> IF loaded = "TemplateNotFound" THEN "TemplateException" ELSE loaded]
    ELSE [svc |-> svc, raised |-> ""]

\* lines 213-215
get_cache_size(svc) == Cardinality(DOMAIN svc._template_cache)

\* lines 125-142; renders says whether template.render(**context) returns
render(template_path, renders) ==
    /\ template_service.calls < MaxTemplateCalls
    /\ LET blank == ~truthy(template_path) \/ ~truthy(strip(template_path))
           got == _get_template(template_service, template_path)
           result == IF blank THEN "TemplateException: Template path cannot be null or empty"
                     ELSE IF got.raised # "" \/ ~renders
                          THEN "TemplateException: Failed to render template"
                          ELSE "rendered"
           svc == IF blank THEN template_service ELSE got.svc
       IN  template_service' =
               [svc EXCEPT !.calls = @ + 1,
                           !.rendered = IF result = "rendered" THEN @ \cup {template_path} ELSE @,
                           !.only_renders = @ /\ result = "rendered",
                           !.op = [name |-> "render", arg |-> {template_path},
                                   result |-> result]]
    /\ UNCHANGED <<config, _playwright, _api_request_context, _token_cache,
                   _playwright_lock, now, pc, frame, started, contexts, ticks,
                   calls, last, args, ret, base_cls, runs, api_request>>

\* lines 205-211; arg is {} for clear_cache() and {template_path} otherwise
clear_cache(arg) ==
    /\ template_service.calls < MaxTemplateCalls
    /\ LET cache == template_service._template_cache
           template_path == IF arg = {} THEN "" ELSE CHOOSE s \in arg : TRUE
       IN  template_service' =
               [template_service EXCEPT
                   !._template_cache =
                       IF arg # {} /\ truthy(template_path)
                       THEN IF template_path \in DOMAIN cache
                            THEN [x \in DOMAIN cache \ {template_path} |-> cache[x]]
                            ELSE cache
                       ELSE NoTemplates,
                   !.calls = @ + 1,
                   !.rendered = IF arg = {} THEN {} ELSE @,
                   !.only_renders = arg = {},
                   !.op = [name |-> "clear_cache", arg |-> arg, result |-> "returned"]]
    /\ UNCHANGED <<config, _playwright, _api_request_context, _token_cache,
                   _playwright_lock, now, pc, frame, started, contexts, ticks,
                   calls, last, args, ret, base_cls, runs, api_request>>

InitTemplate ==
    /\ config = [client_id |-> "test-client-id", client_secret |-> "test-client-secret"]
    /\ _playwright = None
    /\ _api_request_context = None
    /\ _token_cache = EmptyDict
    /\ _playwright_lock = FreeLock
    /\ now = 0
    /\ pc = [t \in Tasks |-> "idle"]
    /\ frame = [t \in Tasks |-> NoOp]
    /\ started = 0
    /\ contexts = 0
    /\ ticks = 0
    /\ calls = 0
    /\ last = NoOp
    /\ args = <<>>
    /\ ret = <<>>
    /\ base_cls = BaseApiTest
    /\ runs = NoRuns
    /\ template_service = TemplateService
    /\ api_request = PlaywrightApiRequest

NextTemplate ==
    \/ \E template_path \in TemplatePaths, renders \in BOOLEAN :
           render(template_path, renders)
    \/ \E arg \in {{}} \cup {{s} : s \in TemplatePaths} : clear_cache(arg)

SpecTemplate == InitTemplate /\ [][NextTemplate]_vars

RenderStep ==
    template_service'.calls = template_service.calls + 1
        /\ template_service'.op.name = "render"

ClearCacheStep ==
    template_service'.calls = template_service.calls + 1
        /\ template_service'.op.name = "clear_cache"

\* C21: while every call since the construction of the service or the last
\* clear_cache() was a render that returned, the cache holds exactly the paths
\* rendered since then and get_cache_size() is their number; and a render of a
\* path that is cached calls the loader no further time and leaves the cache,
\* Template objects included, as it was.
C21_CacheHoldsRenderedPaths ==
    /\ [](template_service.only_renders
            => /\ DOMAIN template_service._template_cache = template_service.rendered
               /\ get_cache_size(template_service) = Cardinality(template_service.rendered))
    /\ [][RenderStep /\ template_service'.op.arg \subseteq DOMAIN template_service._template_cache
            => /\ template_service'._template_cache = template_service._template_cache
               /\ template_service'.get_template = template_service.get_template]_vars

\* two paths rendered, the second render of one of them served from the cache
C21_Witness ==
    /\ template_service.only_renders
    /\ template_service.rendered = {"a.json.j2", "b.json.j2"}
    /\ get_cache_size(template_service) = 2
    /\ template_service.calls = 3
    /\ template_service.get_template = 2

\* C22: clear_cache(path) removes the entry of path and no other, and leaves a
\* cache that has no entry for path as it was; clear_cache() empties the cache.
C22_ClearRemovesOnlyThePath ==
    [][ClearCacheStep
        => LET cache == template_service._template_cache
               arg == template_service'.op.arg
           IN  template_service'._template_cache =
                   IF arg = {} THEN NoTemplates
                   ELSE [x \in DOMAIN cache \ arg |-> cache[x]]]_vars

(***************************************************************************)
(* PlaywrightApiRequest: the builders, _execute and the three properties   *)
(* that execute the request on first access.                               *)
(***************************************************************************)
MaxRequestCalls == 4

\* URLs as sequences of parts, one without and one with a query string
Urls == {<<"https://api.example.com/users">>,
         <<"https://api.example.com/users", "?", "active=true">>}

\* the keys of method_map, lines 248-254
SupportedMethods == {"GET", "POST", "PUT", "DELETE", "PATCH"}

\* what the call of the context's method at line 259 does with a sync context
SendOutcomes == {"application/json", "text/plain", "Error"}

RECURSIVE joined(_)
\* '&'.join(query_parts)
joined(query_parts) ==
    IF Len(query_parts) <= 1 THEN query_parts
    ELSE <<Head(query_parts), "&">> \o joined(Tail(query_parts))

\* lines 239-242: the URL with the query string appended
with_query(url, query_params) ==
    IF query_params = <<>> THEN url
    ELSE LET separator == IF \E i \in DOMAIN url : url[i] = "?" THEN "&" ELSE "?"
         IN  url \o <<separator>> \o joined(query_params)

\* lines 93-98: get_config() gives the TestConfig of config.py
_get_config(req) == IF req._config = "None" THEN "TestConfig" ELSE req._config

\* lines 140, 179 and 103: the TestConfig of config.py declares none of
\* log_request_body, log_response_body, log_mask_sensitive_headers
declares_log_settings(cfg) == cfg # "TestConfig"

\* lines 213-274: the request after the call and how the call ended
_execute(req, outcome) ==
    LET r == [req EXCEPT !.executes = @ + 1]
    IN  IF req._method = "None" \/ req._url = {}
        THEN [req |-> r, result |-> "ValueError"]
        ELSE
        LET url == with_query(CHOOSE u \in req._url : TRUE, req._query_params)
            logged == [r EXCEPT !._url = {url}, !._config = _get_config(req)]
        IN  IF ~declares_log_settings(logged._config)
            THEN [req |-> logged, result |-> "AttributeError"]
            ELSE IF req._method \notin SupportedMethods
            THEN [req |-> logged, result |-> "ValueError"]
            ELSE IF req._context = "async_api"
            THEN [req |-> [logged EXCEPT !._response = "coroutine"],
                  result |-> "AttributeError"]
            ELSE IF outcome = "Error"
            THEN [req |-> [logged EXCEPT !.sends = Append(@, url)], result |-> "Error"]
            ELSE [req |-> [logged EXCEPT
                              !.sends = Append(@, url),
                              !._response = "APIResponse",
                              !._json_response =
                                  IF outcome = "application/json" THEN "dict" ELSE "None"],
                  result |-> "returned"]

\* lines 31-65: get, post, put, delete, patch
builder(method, url) ==
    /\ api_request.calls < MaxRequestCalls
    /\ api_request' = [api_request EXCEPT !._method = method, !._url = {url},
                                          !.calls = @ + 1,
                                          !.op = [name |-> "builder", result |-> "returned"]]
    /\ UNCHANGED <<config, _playwright, _api_request_context, _token_cache,
                   _playwright_lock, now, pc, frame, started, contexts, ticks,
                   calls, last, args, ret, base_cls, runs, template_service>>

\* lines 83-86: query_param(name, value), the dict kept as a list of "name=value"
query_param(name) ==
    /\ api_request.calls < MaxRequestCalls
    /\ LET part == IF name = "page" THEN "page=1" ELSE "size=2"
           params == api_request._query_params
       IN  api_request' =
               [api_request EXCEPT
                   !._query_params =
                       IF \E i \in DOMAIN params : params[i] = part
                       THEN params ELSE Append(params, part),
                   !.calls = @ + 1,
                   !.op = [name |-> "query_param", result |-> "returned"]]
    /\ UNCHANGED <<config, _playwright, _api_request_context, _token_cache,
                   _playwright_lock, now, pc, frame, started, contexts, ticks,
                   calls, last, args, ret, base_cls, runs, template_service>>

\* lines 277-299: should_have, extract, response
access(property, outcome) ==
    /\ api_request.calls < MaxRequestCalls
    /\ LET done == IF api_request._response = "None"
                   THEN _execute(api_request, outcome)
                   ELSE [req |-> api_request, result |-> "returned"]
       IN  api_request' = [done.req EXCEPT !.calls = @ + 1,
                                           !.op = [name |-> property,
                                                   result |-> done.result]]
    /\ UNCHANGED <<config, _playwright, _api_request_context, _token_cache,
                   _playwright_lock, now, pc, frame, started, contexts, ticks,
                   calls, last, args, ret, base_cls, runs, template_service>>

\* PlaywrightApiRequest(context) with a sync or an async APIRequestContext;
\* the method, the URL and the configuration as the callers and the tests set
\* them before the first access
InitRequest ==
    /\ config = [client_id |-> "test-client-id", client_secret |-> "test-client-secret"]
    /\ _playwright = None
    /\ _api_request_context = None
    /\ _token_cache = EmptyDict
    /\ _playwright_lock = FreeLock
    /\ now = 0
    /\ pc = [t \in Tasks |-> "idle"]
    /\ frame = [t \in Tasks |-> NoOp]
    /\ started = 0
    /\ contexts = 0
    /\ ticks = 0
    /\ calls = 0
    /\ last = NoOp
    /\ args = <<>>
    /\ ret = <<>>
    /\ base_cls = BaseApiTest
    /\ runs = NoRuns
    /\ template_service = TemplateService
    /\ api_request \in {[PlaywrightApiRequest EXCEPT !._context = context,
                                                     !._method = method,
                                                     !._url = url,
                                                     !._config = cfg] :
                           context \in {"sync_api", "async_api"},
                           method \in {"None", "GET", "UNKNOWN"},
                           url \in {{}} \cup {{u} : u \in Urls},
                           cfg \in {"None", "Mock"}}

NextRequest ==
    \/ \E method \in SupportedMethods, url \in Urls : builder(method, url)
    \/ \E name \in {"page", "size"} : query_param(name)
    \/ \E property \in {"should_have", "extract", "response"}, outcome \in SendOutcomes :
           access(property, outcome)

SpecRequest == InitRequest /\ [][NextRequest]_vars

AccessStep ==
    api_request'.calls = api_request.calls + 1
        /\ api_request'.op.name \in {"should_have", "extract", "response"}

ExecuteStep == api_request'.executes = api_request.executes + 1

\* C23: an _execute that finds the method or the URL not set, or the method
\* outside GET, POST, PUT, DELETE and PATCH, raises ValueError, sends no HTTP
\* request and records no response.
C23_ValueErrorWithoutSend ==
    [][ExecuteStep /\ (\/ api_request._method = "None"
                       \/ api_request._url = {}
                       \/ api_request._method \notin SupportedMethods)
        => /\ api_request'.op.result = "ValueError"
           /\ api_request'.sends = api_request.sends
           /\ api_request'._response = "None"]_vars

MaxPathLen == 4

Chars == {"/", "a", "0", "1", "-"}

Paths == UNION {[1..n -> Chars] : n \in 0..MaxPathLen}

\* None, as dict.get gives it for a missing key and as JSON null is loaded
JsonNone == [kind |-> "None", items |-> <<>>, val |-> ""]

JsonStr(s) == [kind |-> "str", items |-> <<>>, val |-> s]

JsonInt(s) == [kind |-> "int", items |-> <<>>, val |-> s]

JsonList(items) == [kind |-> "list", items |-> items, val |-> ""]

JsonDict(items) == [kind |-> "dict", items |-> items, val |-> ""]

\* the documents self._request.json() returns:
\*   {"a": ["x", null, 0], "0": null}
\*   {"a": {"a": "x", "1": []}, "1": "y"}
\*   ["x", {"a": "y"}]
JsonDocuments ==
    { JsonDict([k \in {<<"a">>, <<"0">>} |->
                   IF k = <<"a">> THEN JsonList(<<JsonStr("x"), JsonNone, JsonInt("0")>>)
                   ELSE JsonNone]),
      JsonDict([k \in {<<"a">>, <<"1">>} |->
                   IF k = <<"a">>
                   THEN JsonDict([j \in {<<"a">>, <<"1">>} |->
                                     IF j = <<"a">> THEN JsonStr("x") ELSE JsonList(<<>>)])
                   ELSE JsonStr("y")]),
      JsonList(<<JsonStr("x"), JsonDict([k \in {<<"a">>} |-> JsonStr("y")])>>) }

RECURSIVE split(_)
\* path.split("/")
split(s) ==
    IF \A i \in DOMAIN s : s[i] # "/" THEN <<s>>
    ELSE LET i == CHOOSE j \in DOMAIN s : s[j] = "/" /\ \A k \in 1..(j - 1) : s[k] # "/"
         IN  <<SubSeq(s, 1, i - 1)>> \o split(SubSeq(s, i + 1, Len(s)))

Digit(c) == CASE c = "0" -> 0 [] c = "1" -> 1

RECURSIVE Digits(_)
\* the value of a non-empty run of digits
Digits(s) == IF Len(s) = 1 THEN Digit(s[1])
             ELSE 10 * Digits(SubSeq(s, 1, Len(s) - 1)) + Digit(s[Len(s)])

\* int(part) raises ValueError
ValueError(part) ==
    LET digits == IF part # <<>> /\ part[1] = "-" THEN Tail(part) ELSE part
    IN  digits = <<>> \/ \E i \in DOMAIN digits : digits[i] \notin {"0", "1"}

\* int(part)
int(part) == IF part[1] = "-" THEN 0 - Digits(Tail(part)) ELSE Digits(part)

\* lines 149-158: one step of the navigation
navigate(current, part) ==
    IF current.kind = "dict"
    THEN IF part \in DOMAIN current.items THEN current.items[part] ELSE JsonNone
    ELSE IF current.kind = "list"
    THEN IF ValueError(part) THEN JsonNone
         ELSE LET index == int(part)
              IN  IF 0 <= index /\ index < Len(current.items)
                  THEN current.items[index + 1] ELSE JsonNone
    ELSE JsonNone

RECURSIVE walk(_, _)
\* lines 147-163: the value the loop ends with, JsonNone if it stops at line 160
walk(current, parts) ==
    IF parts = <<>> THEN current
    ELSE LET next == navigate(current, Head(parts))
         IN  IF next.kind = "None" THEN JsonNone ELSE walk(next, Tail(parts))

\* lines 166-195, reached with the value the path resolves to
checks(current, a) ==
    IF a.exists = "False" THEN "AssertionError: exists but should not"
    ELSE IF a.equals # {} /\ ~(current.kind = "str" /\ {current.val} = a.equals)
    THEN "AssertionError: expected"
    ELSE IF a.matches = "(?!)" THEN "AssertionError: does not match pattern"
    ELSE IF a.validate = "lambda v: False" THEN "AssertionError: custom validation failed"
    ELSE "returned"

\* lines 138-195. self._request.json is a property of PlaywrightApiRequest
\* (lines 301-311 there), so `await self._request.json()` calls a dict or None
\* and raises TypeError; the AsyncMock of the tests returns the document.
json_path(a) ==
    IF a.request = "PlaywrightApiRequest" THEN "TypeError"
    ELSE IF a.json_data = {} THEN "AssertionError: not JSON"
    ELSE LET path == IF a.path # <<>> /\ a.path[1] = "/" THEN Tail(a.path) ELSE a.path
             current == walk(CHOOSE d \in a.json_data : TRUE, split(path))
         IN  IF current.kind = "None"
             THEN IF a.exists = "False" THEN "returned"
                  ELSE "AssertionError: not found"
             ELSE checks(current, a)

InitJsonPath ==
    /\ config = [client_id |-> "test-client-id", client_secret |-> "test-client-secret"]
    /\ _playwright = None
    /\ _api_request_context = None
    /\ _token_cache = EmptyDict
    /\ _playwright_lock = FreeLock
    /\ now = 0
    /\ pc = [t \in Tasks |-> "idle"]
    /\ frame = [t \in Tasks |-> NoOp]
    /\ started = 0
    /\ contexts = 0
    /\ ticks = 0
    /\ calls = 0
    /\ last = NoOp
    /\ args \in [request : {"PlaywrightApiRequest", "AsyncMock"},
                 json_data : {{}} \cup {{d} : d \in JsonDocuments},
                 path : Paths,
                 exists : {"None", "True", "False"},
                 equals : {{}, {"x"}},
                 matches : {"None", "(?!)"},
                 validate : {"None", "lambda v: False"}]
    /\ ret = <<>>
    /\ base_cls = BaseApiTest
    /\ runs = NoRuns
    /\ template_service = TemplateService
    /\ api_request = PlaywrightApiRequest

JsonPathCall ==
    /\ ret = <<>>
    /\ ret' = <<json_path(args)>>
    /\ UNCHANGED <<config, _playwright, _api_request_context, _token_cache,
                   _playwright_lock, now, pc, frame, started, contexts, ticks,
                   calls, last, args, base_cls, runs, template_service, api_request>>

NextJsonPath == JsonPathCall

SpecJsonPath == InitJsonPath /\ [][NextJsonPath]_vars

\* the path of the call leads to a value other than None
Resolves ==
    LET path == IF args.path # <<>> /\ args.path[1] = "/" THEN Tail(args.path) ELSE args.path
    IN  walk(CHOOSE d \in args.json_data : TRUE, split(path)).kind # "None"

\* C24: on a JSON response, json_path with exists=False returns when the path
\* does not resolve (a missing key, a list index out of range or not a number,
\* or null on the way) and raises AssertionError when it resolves; with exists
\* None or True a path that does not resolve raises the AssertionError 'not
\* found', whatever equals, matches and validate are.
C24_ExistenceSemantics ==
    ret # <<>> /\ args.json_data # {}
        => /\ args.exists = "False" /\ ~Resolves => ret[1] = "returned"
           /\ args.exists = "False" /\ Resolves
                => ret[1] = "AssertionError: exists but should not"
           /\ args.exists # "False" /\ ~Resolves => ret[1] = "AssertionError: not found"


=============================================================================
